---- MODULE Spec2Model ----
(***************************************************************************)
(* A model of src/modular_flow/mod.rs: the port subsystem of the dataflow   *)
(* graph.  Ports are connected one-to-one by connect / disconnect, which    *)
(* take the two ports' edge mutexes; read and write futures move bytes      *)
(* through a port's buffer under the hand-rolled buf_lock.                  *)
(*                                                                         *)
(* Threads call connect and disconnect; tasks are executor tasks that poll  *)
(* read and write futures.  Every step below is one access to shared state  *)
(* (a mutex acquisition, a compare-and-swap, a store, a queue operation) or *)
(* a run of accesses made while the locks that protect them are held.       *)
(***************************************************************************)
EXTENDS Integers, Sequences, FiniteSets, TLC

\* ---------------------------------------------------------------- bounds
NPorts == 3
\* calls of connect / disconnect per thread, when two threads race
MaxOps == 2
\* calls of connect / disconnect of the one thread that runs beside the tasks
MaxIOOps == 3
\* the same, when the thread disconnects repeatedly
MaxDiscOps == 4
\* the same, under fair scheduling
MaxLiveOps == 2
\* the same, when ports are destroyed
MaxDropOps == 3
\* futures created per task
MaxReads == 2
MaxWrites == 2
\* elements asked for by read_n
MaxN == 2
\* calls of connect / disconnect of the thread, with ports of mixed types
MaxTypeOps == 3
\* the same, with two reading tasks
MaxTurnOps == 2
\* failed attempts on buf_lock that a spinning disconnect_abort counts
MaxSpin == 2

\* ------------------------------------------------------------- constants
None == 0
Free == 0

Ports == 1..NPorts
ThreadIds == {101, 102}

\* TypeId and mem::size_of of the element types used by the ports.
TypeIds == {"u16", "u8"}
SizeOf(ty) == IF ty = "u16" THEN 2 ELSE 1

\* typed_as_bytes: the elements laid out in memory one after the other, each
\* as size bytes, least significant first.
Pow256(j) == IF j = 0 THEN 1 ELSE 256
ByteOf(v, j) == (v \div Pow256(j)) % 256
typed_as_bytes(data, size) ==
  [i \in 1..(Len(data) * size) |-> ByteOf(data[((i - 1) \div size) + 1], (i - 1) % size)]

\* bytes_as_typed after its alignment assertion: Len(bytes) \div size elements,
\* each read back from its size bytes.
ElemOf(bytes, size, i) ==
  IF size = 1 THEN bytes[i]
  ELSE bytes[(i - 1) * size + 1] + 256 * bytes[(i - 1) * size + 2]
\* A variant that reads each element most significant byte first.
bytes_as_typed_BigEndian(bytes, size) ==
  [i \in 1..(Len(bytes) \div size) |->
     IF size = 1 THEN bytes[i]
     ELSE 256 * bytes[(i - 1) * size + 1] + bytes[(i - 1) * size + 2]]
bytes_as_typed(bytes, size) ==
  [i \in 1..(Len(bytes) \div size) |-> ElemOf(bytes, size, i)]

\* What the tasks write, and how much they ask to read: None is `read`, a
\* number the n of `read_n`.
WriteData == {<<1>>, <<258, 1>>}
\* Whether every element of data is a value of a type of size bytes.
Fits(data, size) ==
  \A i \in 1..Len(data) : data[i] < (IF size = 1 THEN 256 ELSE 65536)
ReadSizes == {None} \cup (1..MaxN)

\* MetaPort::new::<InT, OutT>: the type tags of a port.
MetaPort(in, out) == [in_ty |-> in, out_ty |-> out]

VARIABLES
  graph,               \* graph[p]: the Graph whose generate_id numbered port p
  meta,                \* Port.meta
  alive,               \* whether a strong reference to the port exists
  edge,                \* Port.edge: Option<Weak<Port>>
  edge_lock,           \* the holder of the Mutex around Port.edge, or Free
  buf_lock,            \* Port.buf_lock: AtomicBool
  buf_lock_q,          \* Port.buf_lock_q: SegQueue<Waker>
  buffer,              \* Port.buffer: VecDeque<u8>
  reader_buf,          \* Port.reader_buf: AtomicOption<Waker>
  connect_wait,        \* Port.connect_wait: Vec<Waker>
  disconnect_occured,  \* Port.disconnect_occured: AtomicBool
  thr,                 \* the threads calling connect / disconnect
  task,                \* the executor tasks polling read / write futures
  hist                 \* history: what has happened so far, read by no action

vars == <<graph, meta, alive, edge, edge_lock, buf_lock, buf_lock_q, buffer,
          reader_buf, connect_wait, disconnect_occured, thr, task, hist>>

\* Graph::generate_id, as used by Interface::new and Port::new: a graph hands
\* out 0, 1, 2, ... ; its node takes 0 and its ports the following numbers.
PortIdOf(p) == 1 + Cardinality({q \in Ports : q < p /\ graph[q] = graph[p]})

\* A variant for which the reference to a destroyed partner still counts.
Resolve_NoUpgrade(p) == edge[p]

\* Port::edge and the inline `as_ref().and_then(|x| x.upgrade())`: the partner,
\* if the weak reference still upgrades.
Resolve(p) == IF edge[p] # None /\ alive[edge[p]] THEN edge[p] ELSE None

\* Whether port p has an edge recorded on both sides.
Connected(p) == Resolve(p) # None /\ Resolve(Resolve(p)) = p

\* Port::connect, line 232: the bidirectional type check.
TypeMismatch(s, o) ==
  meta[s].in_ty # meta[o].out_ty \/ meta[s].out_ty # meta[o].in_ty

\* Port::connect lines 241-245 and Port::disconnect lines 286-292: the port
\* whose edge mutex is locked first, and the one locked second.
LockFirst(s, o) == IF PortIdOf(s) < PortIdOf(o) THEN s ELSE o
LockSecond(s, o) == IF PortIdOf(s) < PortIdOf(o) THEN o ELSE s

\* A thread that has made no call yet.  It will make `quota` calls at most:
\* connect(s, o) for the pairs <<s, o>> of `cpairs` and disconnect(s) for the
\* ports of `dports`.  `saw` is history: whether an edge of either port
\* resolved when the call made its checks.
IdleThread(cpairs, dports, quota) ==
  [pc |-> "idle", op |-> "none", self |-> None, other |-> None,
   res |-> "none", ops |-> 0, ab |-> None, saw |-> FALSE, try |-> 0,
   cpairs |-> cpairs, dports |-> dports, quota |-> quota]

\* History variables: the disconnect events of each port (the times
\* disconnect_abort set its flag), the Disconnected failures delivered to its
\* reads, the last write appended to its buffer if nothing was drained since
\* (the bytes q queued before it, the elements s written, whether the write
\* has returned, whether it was the first since the port's last connect), and
\* whether nothing was appended to the buffer since the port's last connect,
\* the elements written to its buffer so far, in the order of the appends
\* (sent), the elements its reads have returned so far (rcvd), and the calls
\* of disconnect that returned Ok having cleared its edge (okdisc) and the
\* connections made on it (conns), and whether a read on it was ever begun
\* before an earlier read on it had completed or failed (overlap).
NoWrite == [seq |-> 0, q |-> <<>>, s |-> <<>>, done |-> FALSE, first |-> FALSE]
InitHist ==
  [events |-> [p \in Ports |-> 0],
   failures |-> [p \in Ports |-> 0],
   writes |-> 0,
   last_write |-> [p \in Ports |-> NoWrite],
   fresh |-> [p \in Ports |-> FALSE],
   sent |-> [p \in Ports |-> <<>>],
   rcvd |-> [p \in Ports |-> <<>>],
   okdisc |-> [p \in Ports |-> 0],
   conns |-> [p \in Ports |-> 0],
   overlap |-> [p \in Ports |-> FALSE]]

\* The ports after construction (Port::new): no edge, empty buffer, no
\* waiter.  The last port is declared with one of the given MetaPorts and by
\* either the first graph or a second one; the others are u16 ports of the
\* first graph.
InitPorts(lastGraphs, lastMetas) ==
  /\ graph \in {g \in [Ports -> {1, 2}] :
                  /\ g[NPorts] \in lastGraphs
                  /\ \A p \in Ports : p < NPorts => g[p] = 1}
  /\ meta \in {m \in [Ports -> {MetaPort(i, o) : i \in TypeIds, o \in TypeIds}] :
                 /\ m[NPorts] \in lastMetas
                 /\ \A p \in Ports : p < NPorts => m[p] = MetaPort("u16", "u16")}
  /\ alive = [p \in Ports |-> TRUE]
  /\ edge = [p \in Ports |-> None]
  /\ edge_lock = [p \in Ports |-> Free]
  /\ buf_lock = [p \in Ports |-> FALSE]
  /\ buf_lock_q = [p \in Ports |-> <<>>]
  /\ buffer = [p \in Ports |-> <<>>]
  /\ reader_buf = [p \in Ports |-> None]
  /\ connect_wait = [p \in Ports |-> <<>>]
  /\ disconnect_occured = [p \in Ports |-> FALSE]

portVars == <<graph, meta, alive>>

\* Waker::wake on each task of S: the executor will poll the task again.
Wake(S) ==
  [k \in DOMAIN task |-> IF k \in S THEN [task[k] EXCEPT !.notified = TRUE] ELSE task[k]]

Range(q) == {q[i] : i \in 1..Len(q)}

\* ------------------------------------------------------------ Port::connect

\* Mutant of CallConnect: only one direction of the link is type-checked.
CallConnect_OneWay(t) ==
  /\ thr[t].pc = "idle"
  /\ thr[t].ops < thr[t].quota
  /\ \E c \in thr[t].cpairs :
       LET s == c[1]
           o == c[2]
           bad == meta[s].in_ty # meta[o].out_ty IN
       /\ alive[s] /\ alive[o]
       /\ thr' = [thr EXCEPT ![t] =
            [@ EXCEPT
               !.saw = Connected(s) \/ Connected(o),
               !.pc = IF bad THEN "idle"
                      ELSE IF s = o THEN "panicked" ELSE "c_lock_a",
               !.op = "connect", !.self = s, !.other = o,
               !.res = IF bad THEN "TypeMismatch"
                       ELSE IF s = o THEN "unimplemented" ELSE "none",
               !.ops = @ + 1]]
  /\ UNCHANGED <<portVars, edge, edge_lock, buf_lock, buf_lock_q, buffer,
                 reader_buf, connect_wait, disconnect_occured, task, hist>>

\* The call, lines 231-238: the type check, then the self-edge check.
CallConnect(t) ==
  /\ thr[t].pc = "idle"
  /\ thr[t].ops < thr[t].quota
  /\ \E c \in thr[t].cpairs :
       LET s == c[1]
           o == c[2] IN
       /\ alive[s] /\ alive[o]
       /\ thr' = [thr EXCEPT ![t] =
            [@ EXCEPT
               !.saw = Connected(s) \/ Connected(o),
               !.pc = IF TypeMismatch(s, o) THEN "idle"
                      ELSE IF s = o THEN "panicked" ELSE "c_lock_a",
               !.op = "connect", !.self = s, !.other = o,
               !.res = IF TypeMismatch(s, o) THEN "TypeMismatch"
                       ELSE IF s = o THEN "unimplemented" ELSE "none",
               !.ops = @ + 1]]
  /\ UNCHANGED <<portVars, edge, edge_lock, buf_lock, buf_lock_q, buffer,
                 reader_buf, connect_wait, disconnect_occured, task, hist>>

\* Line 246: a.edge.lock(), a being the port of lower id.
ConnectLockA(t) ==
  LET a == LockFirst(thr[t].self, thr[t].other) IN
  /\ thr[t].pc = "c_lock_a"
  /\ edge_lock[a] = Free
  /\ edge_lock' = [edge_lock EXCEPT ![a] = t]
  /\ thr' = [thr EXCEPT ![t].pc = "c_lock_b"]
  /\ UNCHANGED <<portVars, edge, buf_lock, buf_lock_q, buffer, reader_buf,
                 connect_wait, disconnect_occured, task, hist>>

\* Mutant of ConnectLockB: only the first port's edge is checked.
ConnectLockB_CheckOne(t) ==
  LET a == LockFirst(thr[t].self, thr[t].other)
      b == LockSecond(thr[t].self, thr[t].other) IN
  /\ thr[t].pc = "c_lock_b"
  /\ edge_lock[b] = Free
  /\ IF Resolve(a) # None
     THEN /\ thr' = [thr EXCEPT ![t].pc = "idle", ![t].res = "AlreadyConnected",
                                 ![t].saw = TRUE]
          /\ edge_lock' = [edge_lock EXCEPT ![a] = Free]
     ELSE /\ thr' = [thr EXCEPT ![t].pc = "c_set_a", ![t].saw = Resolve(b) # None]
          /\ edge_lock' = [edge_lock EXCEPT ![b] = t]
  /\ UNCHANGED <<portVars, edge, buf_lock, buf_lock_q, buffer, reader_buf,
                 connect_wait, disconnect_occured, task, hist>>

\* Lines 247-252: b.edge.lock(), then the AlreadyConnected check under both
\* locks; on failure both guards are dropped by the return.
ConnectLockB(t) ==
  LET a == LockFirst(thr[t].self, thr[t].other)
      b == LockSecond(thr[t].self, thr[t].other) IN
  /\ thr[t].pc = "c_lock_b"
  /\ edge_lock[b] = Free
  /\ IF Resolve(a) # None \/ Resolve(b) # None
     THEN /\ thr' = [thr EXCEPT ![t].pc = "idle", ![t].res = "AlreadyConnected",
                                 ![t].saw = TRUE]
          /\ edge_lock' = [edge_lock EXCEPT ![a] = Free]
     ELSE /\ thr' = [thr EXCEPT ![t].pc = "c_set_a", ![t].saw = FALSE]
          /\ edge_lock' = [edge_lock EXCEPT ![b] = t]
  /\ UNCHANGED <<portVars, edge, buf_lock, buf_lock_q, buffer, reader_buf,
                 connect_wait, disconnect_occured, task, hist>>

\* Line 253: *a_edge = Some(Arc::downgrade(b)).
ConnectSetA(t) ==
  LET a == LockFirst(thr[t].self, thr[t].other)
      b == LockSecond(thr[t].self, thr[t].other) IN
  /\ thr[t].pc = "c_set_a"
  /\ edge' = [edge EXCEPT ![a] = b]
  /\ thr' = [thr EXCEPT ![t].pc = "c_set_b"]
  /\ UNCHANGED <<portVars, edge_lock, buf_lock, buf_lock_q, buffer, reader_buf,
                 connect_wait, disconnect_occured, task, hist>>

\* Mutant of ConnectSetB: the back edge is not recorded.
ConnectSetB_NoBackEdge(t) ==
  /\ thr[t].pc = "c_set_b"
  /\ thr' = [thr EXCEPT ![t].pc = "c_drain_self"]
  /\ UNCHANGED <<portVars, edge, edge_lock, buf_lock, buf_lock_q, buffer, reader_buf,
                 connect_wait, disconnect_occured, task, hist>>

\* Line 254: *b_edge = Some(Arc::downgrade(a)).
ConnectSetB(t) ==
  LET a == LockFirst(thr[t].self, thr[t].other)
      b == LockSecond(thr[t].self, thr[t].other) IN
  /\ thr[t].pc = "c_set_b"
  /\ edge' = [edge EXCEPT ![b] = a]
  /\ thr' = [thr EXCEPT ![t].pc = "c_drain_self"]
  /\ hist' = [hist EXCEPT !.fresh[a] = TRUE, !.fresh[b] = TRUE,
                          !.conns[a] = @ + 1, !.conns[b] = @ + 1]
  /\ UNCHANGED <<portVars, edge_lock, buf_lock, buf_lock_q, buffer, reader_buf,
                 connect_wait, disconnect_occured, task>>

\* Lines 257-264, first half of the chain: drain self.connect_wait, waking
\* every waker in it.
ConnectDrainSelf(t) ==
  LET s == thr[t].self IN
  /\ thr[t].pc = "c_drain_self"
  /\ task' = Wake(Range(connect_wait[s]))
  /\ connect_wait' = [connect_wait EXCEPT ![s] = <<>>]
  /\ thr' = [thr EXCEPT ![t].pc = "c_drain_other"]
  /\ UNCHANGED <<portVars, edge, edge_lock, buf_lock, buf_lock_q, buffer,
                 reader_buf, disconnect_occured, hist>>

\* Lines 257-266, second half: drain other.connect_wait, then return Ok,
\* dropping both edge guards.
ConnectDrainOther(t) ==
  LET s == thr[t].self
      o == thr[t].other IN
  /\ thr[t].pc = "c_drain_other"
  /\ task' = Wake(Range(connect_wait[o]))
  /\ connect_wait' = [connect_wait EXCEPT ![o] = <<>>]
  /\ edge_lock' = [edge_lock EXCEPT ![s] = Free, ![o] = Free]
  /\ thr' = [thr EXCEPT ![t].pc = "idle", ![t].res = "Ok"]
  /\ UNCHANGED <<portVars, edge, buf_lock, buf_lock_q, buffer, reader_buf,
                 disconnect_occured, hist>>

\* --------------------------------------------------------- Port::disconnect

\* Line 280, `self.edge()`: lock self.edge, resolve the partner, unlock.
\* NotConnected when there is none; entered again by `continue`.
DisconnectEdge(t) ==
  LET s == thr[t].self
      o == Resolve(s) IN
  /\ thr[t].pc = "d_edge"
  /\ edge_lock[s] = Free
  /\ thr' = [thr EXCEPT ![t] =
       IF o = None THEN [@ EXCEPT !.pc = "idle", !.res = "NotConnected"]
       ELSE IF o = s THEN [@ EXCEPT !.pc = "panicked", !.res = "unimplemented"]
       ELSE [@ EXCEPT !.pc = "d_lock_1", !.other = o]]
  /\ UNCHANGED <<portVars, edge, edge_lock, buf_lock, buf_lock_q, buffer,
                 reader_buf, connect_wait, disconnect_occured, task, hist>>

\* The call: disconnect takes no argument but the port itself.
CallDisconnect(t) ==
  /\ thr[t].pc = "idle"
  /\ thr[t].ops < thr[t].quota
  /\ \E s \in thr[t].dports :
       /\ alive[s]
       /\ thr' = [thr EXCEPT ![t] =
            [@ EXCEPT !.pc = "d_edge", !.op = "disconnect", !.self = s,
                      !.other = None, !.res = "none", !.ops = @ + 1,
                      !.saw = Connected(s)]]
  /\ UNCHANGED <<portVars, edge, edge_lock, buf_lock, buf_lock_q, buffer,
                 reader_buf, connect_wait, disconnect_occured, task, hist>>

\* Lines 286-292: the first of the two edge mutexes, the lower id's.
DisconnectLock1(t) ==
  LET a == LockFirst(thr[t].self, thr[t].other) IN
  /\ thr[t].pc = "d_lock_1"
  /\ edge_lock[a] = Free
  /\ edge_lock' = [edge_lock EXCEPT ![a] = t]
  /\ thr' = [thr EXCEPT ![t].pc = "d_lock_2"]
  /\ UNCHANGED <<portVars, edge, buf_lock, buf_lock_q, buffer, reader_buf,
                 connect_wait, disconnect_occured, task, hist>>

\* A variant without the re-validation of self's partner.
DisconnectLock2_NoRevalidation(t) ==
  LET s == thr[t].self
      o == thr[t].other
      a == LockFirst(s, o)
      b == LockSecond(s, o) IN
  /\ thr[t].pc = "d_lock_2"
  /\ edge_lock[b] = Free
  /\ IF Resolve(o) # s /\ edge[o] # None
     THEN /\ thr' = [thr EXCEPT ![t].pc = "panicked", ![t].res = "assert"]
          /\ edge_lock' = [edge_lock EXCEPT ![a] = Free]
     ELSE /\ thr' = [thr EXCEPT ![t].pc = "d_clear_self"]
          /\ edge_lock' = [edge_lock EXCEPT ![b] = t]
  /\ UNCHANGED <<portVars, edge, buf_lock, buf_lock_q, buffer, reader_buf,
                 connect_wait, disconnect_occured, task, hist>>

\* Lines 286-307: the second edge mutex, then the re-validation of self's
\* partner (`continue` drops both guards) and the assertion on other's edge.
DisconnectLock2(t) ==
  LET s == thr[t].self
      o == thr[t].other
      a == LockFirst(s, o)
      b == LockSecond(s, o) IN
  /\ thr[t].pc = "d_lock_2"
  /\ edge_lock[b] = Free
  /\ IF Resolve(s) # o
     THEN /\ thr' = [thr EXCEPT ![t].pc = "d_edge", ![t].other = None]
          /\ edge_lock' = [edge_lock EXCEPT ![a] = Free]
     ELSE IF Resolve(o) # s
     THEN /\ thr' = [thr EXCEPT ![t].pc = "panicked", ![t].res = "assert"]
          /\ edge_lock' = [edge_lock EXCEPT ![a] = Free]
     ELSE /\ thr' = [thr EXCEPT ![t].pc = "d_clear_self"]
          /\ edge_lock' = [edge_lock EXCEPT ![b] = t]
  /\ UNCHANGED <<portVars, edge, buf_lock, buf_lock_q, buffer, reader_buf,
                 connect_wait, disconnect_occured, task, hist>>

\* Line 308: *self_edge = None.
DisconnectClearSelf(t) ==
  /\ thr[t].pc = "d_clear_self"
  /\ edge' = [edge EXCEPT ![thr[t].self] = None]
  /\ thr' = [thr EXCEPT ![t].pc = "d_clear_other"]
  /\ UNCHANGED <<portVars, edge_lock, buf_lock, buf_lock_q, buffer, reader_buf,
                 connect_wait, disconnect_occured, task, hist>>

\* A variant that leaves the partner's edge in place.
DisconnectClearOther_SelfOnly(t) ==
  /\ thr[t].pc = "d_clear_other"
  /\ thr' = [thr EXCEPT ![t].pc = "da_cas", ![t].ab = thr[t].self]
  /\ UNCHANGED <<portVars, edge, edge_lock, buf_lock, buf_lock_q, buffer,
                 reader_buf, connect_wait, disconnect_occured, task, hist>>

\* Line 309: *other_edge = None; self.disconnect_abort() comes next.
DisconnectClearOther(t) ==
  /\ thr[t].pc = "d_clear_other"
  /\ edge' = [edge EXCEPT ![thr[t].other] = None]
  /\ thr' = [thr EXCEPT ![t].pc = "da_cas", ![t].ab = thr[t].self]
  /\ UNCHANGED <<portVars, edge_lock, buf_lock, buf_lock_q, buffer, reader_buf,
                 connect_wait, disconnect_occured, task, hist>>

\* ---------------------------------------------------- Port::disconnect_abort

\* Lines 321-325: one turn of the `loop`.  The compare-and-swap on buf_lock
\* either succeeds, or fails and the loop comes round again; try counts the
\* failed attempts of this abort, as far as MaxSpin.
AbortCas(t) ==
  LET p == thr[t].ab IN
  /\ thr[t].pc = "da_cas"
  /\ IF buf_lock[p] = FALSE
     THEN /\ buf_lock' = [buf_lock EXCEPT ![p] = TRUE]
          /\ thr' = [thr EXCEPT ![t].pc = "da_cs", ![t].try = 0]
     ELSE /\ thr[t].try < MaxSpin
          /\ UNCHANGED buf_lock
          /\ thr' = [thr EXCEPT ![t].try = @ + 1]
  /\ UNCHANGED <<portVars, edge, edge_lock, buf_lock_q, buffer, reader_buf,
                 connect_wait, disconnect_occured, task, hist>>

\* Lines 325-329: inside the critical section set disconnect_occured and take
\* the pending reader, leave the section, wake the reader.
AbortCs(t) ==
  LET p == thr[t].ab IN
  /\ thr[t].pc = "da_cs"
  /\ disconnect_occured' = [disconnect_occured EXCEPT ![p] = TRUE]
  /\ reader_buf' = [reader_buf EXCEPT ![p] = None]
  /\ buf_lock' = [buf_lock EXCEPT ![p] = FALSE]
  /\ task' = [k \in DOMAIN task |->
       [task[k] EXCEPT
          !.notified = @ \/ k = reader_buf[p],
          !.disc_since = @ \/ (task[k].kind = "read" /\ task[k].port = p
                                 /\ task[k].pc # "idle"),
          !.severed = @ \/ (k = reader_buf[p] /\ task[k].pc = "pending")]]
  /\ hist' = [hist EXCEPT !.events[p] = @ + 1]
  /\ thr' = [thr EXCEPT ![t].pc = "da_pop"]
  /\ UNCHANGED <<portVars, edge, edge_lock, buf_lock_q, buffer, connect_wait>>

\* Line 331: wake one waiter of the critical section.  After the abort of
\* self comes the abort of other (line 314); after that the `break`, which
\* drops both edge guards, and Ok (line 318).
AbortPop(t) ==
  LET p == thr[t].ab
      s == thr[t].self
      o == thr[t].other IN
  /\ thr[t].pc = "da_pop"
  /\ IF buf_lock_q[p] = <<>>
     THEN UNCHANGED <<buf_lock_q, task>>
     ELSE /\ buf_lock_q' = [buf_lock_q EXCEPT ![p] = Tail(@)]
          /\ task' = Wake({Head(buf_lock_q[p])})
  /\ IF p = s
     THEN /\ thr' = [thr EXCEPT ![t].pc = "da_cas", ![t].ab = o]
          /\ UNCHANGED <<edge_lock, hist>>
     ELSE /\ thr' = [thr EXCEPT ![t].pc = "idle", ![t].res = "Ok", ![t].ab = None]
          /\ edge_lock' = [edge_lock EXCEPT ![s] = Free, ![o] = Free]
          /\ hist' = [hist EXCEPT !.okdisc[s] = @ + 1, !.okdisc[o] = @ + 1]
  /\ UNCHANGED <<portVars, edge, buf_lock, buffer, reader_buf, connect_wait,
                 disconnect_occured>>

\* ------------------------------------------------------------------ tasks

\* A task that has created no future yet.  It reads from or writes to `port`,
\* `quota` futures at most, one after the other, and begins once the task
\* `after`, if any, is through with its own.  Its last fields are history:
\* whether the port had a disconnect event since the read began or a call of
\* disconnect was running when it began (disc_since), whether the read was
\* the suspended pending reader that a disconnect_abort took (severed), the port's last write when the read began
\* (lw0) and when it drained (lw), the number of the task's own write (wseq),
\* whether the write's last poll resolved the partner after a disconnect
\* event of its port (after_disc).
IdleTask(kind, port, quota) ==
  [kind |-> kind, port |-> port, pc |-> "idle", notified |-> FALSE,
   n |-> None, src |-> <<>>, data |-> <<>>, other |-> None, try |-> 0,
   all |-> FALSE, got |-> <<>>, has |-> FALSE, res |-> "none", out |-> <<>>,
   ops |-> 0, quota |-> quota,
   disc_since |-> FALSE, severed |-> FALSE, lw0 |-> NoWrite, lw |-> NoWrite,
   wseq |-> 0, after_disc |-> FALSE, after |-> None]

\* Port::read (n = None) and Port::read_n (n = Some(n * size_of::<T>())),
\* lines 364-386, and the first poll of the future.
StartRead(k) ==
  /\ task[k].kind = "read"
  /\ task[k].pc = "idle"
  /\ task[k].ops < task[k].quota
  /\ task[k].after # None
       => task[task[k].after].pc = "idle"
            /\ task[task[k].after].ops = task[task[k].after].quota
  /\ \E n \in ReadSizes :
       task' = [task EXCEPT ![k] =
         [@ EXCEPT !.pc = "r_cas", !.try = 0, !.notified = FALSE,
                   !.n = IF n = None THEN None
                         ELSE n * SizeOf(meta[task[k].port].in_ty),
                   !.all = (n = None),
                   !.got = <<>>, !.has = FALSE, !.res = "none", !.out = <<>>,
                   !.ops = @ + 1, !.severed = FALSE,
                   !.disc_since = \E t \in DOMAIN thr :
                                    thr[t].op = "disconnect" /\ thr[t].pc # "idle",
                   !.lw0 = hist.last_write[task[k].port], !.lw = NoWrite]]
  /\ hist' = [hist EXCEPT !.overlap[task[k].port] =
                @ \/ \E j \in DOMAIN task \ {k} :
                       /\ task[j].kind = "read" /\ task[j].port = task[k].port
                       /\ task[j].pc # "idle"]
  /\ UNCHANGED <<portVars, edge, edge_lock, buf_lock, buf_lock_q, buffer,
                 reader_buf, connect_wait, disconnect_occured, thr>>

\* Port::write, lines 342-352, and the first poll of the future.
StartWrite(k) ==
  /\ task[k].kind = "write"
  /\ task[k].pc = "idle"
  /\ task[k].ops < task[k].quota
  /\ \E S \in {D \in WriteData : Fits(D, SizeOf(meta[task[k].port].out_ty))} :
       task' = [task EXCEPT ![k] =
         [@ EXCEPT !.pc = "w_resolve", !.try = 0, !.notified = FALSE,
                   !.src = S,
                   !.data = typed_as_bytes(S, SizeOf(meta[task[k].port].out_ty)),
                   !.other = None, !.res = "none", !.ops = @ + 1, !.wseq = 0,
                   !.after_disc = FALSE]]
  /\ UNCHANGED <<portVars, edge, edge_lock, buf_lock, buf_lock_q, buffer,
                 reader_buf, connect_wait, disconnect_occured, thr, hist>>

\* The executor polls a suspended future again once its task was woken.
Repoll(k) ==
  /\ task[k].pc = "pending"
  /\ task[k].notified
  /\ task' = [task EXCEPT ![k].pc = IF task[k].kind = "read" THEN "r_cas" ELSE "w_resolve",
                          ![k].try = 0, ![k].notified = FALSE]
  /\ UNCHANGED <<portVars, edge, edge_lock, buf_lock, buf_lock_q, buffer,
                 reader_buf, connect_wait, disconnect_occured, thr, hist>>

\* ReadFuture::poll, lines 413-417 and 454-463: the compare-and-swap on
\* buf_lock; on failure the first try goes on to push its waker and the
\* second returns Pending.
ReadCas(k) ==
  LET p == task[k].port IN
  /\ task[k].pc = "r_cas"
  /\ IF buf_lock[p] = FALSE
     THEN /\ buf_lock' = [buf_lock EXCEPT ![p] = TRUE]
          /\ task' = [task EXCEPT ![k].pc = "r_cs"]
     ELSE /\ UNCHANGED buf_lock
          /\ task' = [task EXCEPT ![k].pc = IF task[k].try = 0 THEN "r_push" ELSE "pending"]
  /\ UNCHANGED <<portVars, edge, edge_lock, buf_lock_q, buffer, reader_buf,
                 connect_wait, disconnect_occured, thr, hist>>

\* Line 458: port.buf_lock_q.push(cx.waker()), then the second try.
ReadPush(k) ==
  LET p == task[k].port IN
  /\ task[k].pc = "r_push"
  /\ buf_lock_q' = [buf_lock_q EXCEPT ![p] = Append(@, k)]
  /\ task' = [task EXCEPT ![k].pc = "r_cas", ![k].try = 1]
  /\ UNCHANGED <<portVars, edge, edge_lock, buf_lock, buffer, reader_buf,
                 connect_wait, disconnect_occured, thr, hist>>

\* A variant that fails the read and leaves disconnect_occured set.
ReadCsDisconnected_KeepFlag(k) ==
  LET p == task[k].port IN
  /\ task[k].pc = "r_cs"
  /\ disconnect_occured[p]
  /\ buf_lock' = [buf_lock EXCEPT ![p] = FALSE]
  /\ task' = [task EXCEPT ![k].pc = "idle", ![k].res = "Disconnected"]
  /\ hist' = [hist EXCEPT !.failures[p] = @ + 1]
  /\ UNCHANGED <<portVars, edge, edge_lock, buf_lock_q, buffer, reader_buf,
                 connect_wait, disconnect_occured, thr>>

\* Lines 420-425: inside the critical section, a set disconnect_occured is
\* cleared and fails the read: the section is left and Err returned at once.
ReadCsDisconnected(k) ==
  LET p == task[k].port IN
  /\ task[k].pc = "r_cs"
  /\ disconnect_occured[p]
  /\ disconnect_occured' = [disconnect_occured EXCEPT ![p] = FALSE]
  /\ buf_lock' = [buf_lock EXCEPT ![p] = FALSE]
  /\ task' = [task EXCEPT ![k].pc = "idle", ![k].res = "Disconnected"]
  /\ hist' = [hist EXCEPT !.failures[p] = @ + 1]
  /\ UNCHANGED <<portVars, edge, edge_lock, buf_lock_q, buffer, reader_buf,
                 connect_wait, thr>>

\* Whether the queued bytes do not satisfy the read (line 429).
NotEnough(n, len) == IF n = None THEN len = 0 ELSE len < n

\* Lines 429-444 and 452: not enough data; the waker is swapped into
\* reader_buf, which panics (inside the critical section) when another task's
\* waker was there.
ReadCsRegister(k) ==
  LET p == task[k].port
      old == reader_buf[p] IN
  /\ task[k].pc = "r_cs"
  /\ ~disconnect_occured[p]
  /\ NotEnough(task[k].n, Len(buffer[p]))
  /\ reader_buf' = [reader_buf EXCEPT ![p] = k]
  /\ IF old # None /\ old # k
     THEN /\ task' = [task EXCEPT ![k].pc = "panicked", ![k].res = "panic"]
          /\ UNCHANGED buf_lock
     ELSE /\ task' = [task EXCEPT ![k].pc = "r_pop", ![k].has = FALSE]
          /\ buf_lock' = [buf_lock EXCEPT ![p] = FALSE]
  /\ UNCHANGED <<portVars, edge, edge_lock, buf_lock_q, buffer, connect_wait,
                 disconnect_occured, thr, hist>>

\* A variant that drains the whole buffer whatever n is.
ReadCsDrain_All(k) ==
  LET p == task[k].port IN
  /\ task[k].pc = "r_cs"
  /\ ~disconnect_occured[p]
  /\ ~NotEnough(task[k].n, Len(buffer[p]))
  /\ buffer' = [buffer EXCEPT ![p] = <<>>]
  /\ buf_lock' = [buf_lock EXCEPT ![p] = FALSE]
  /\ task' = [task EXCEPT ![k].pc = "r_pop", ![k].has = TRUE,
                          ![k].got = buffer[p],
                          ![k].lw = hist.last_write[p]]
  /\ hist' = [hist EXCEPT !.last_write[p] = NoWrite]
  /\ UNCHANGED <<portVars, edge, edge_lock, buf_lock_q, reader_buf, connect_wait,
                 disconnect_occured, thr>>

\* Lines 445-452: enough data; drain the first n bytes (all of them for
\* read), leave the critical section.
ReadCsDrain(k) ==
  LET p == task[k].port
      n == IF task[k].n = None THEN Len(buffer[p]) ELSE task[k].n IN
  /\ task[k].pc = "r_cs"
  /\ ~disconnect_occured[p]
  /\ ~NotEnough(task[k].n, Len(buffer[p]))
  /\ buffer' = [buffer EXCEPT ![p] = SubSeq(@, n + 1, Len(@))]
  /\ buf_lock' = [buf_lock EXCEPT ![p] = FALSE]
  /\ task' = [task EXCEPT ![k].pc = "r_pop", ![k].has = TRUE,
                          ![k].got = SubSeq(buffer[p], 1, n),
                          ![k].lw = hist.last_write[p]]
  /\ hist' = [hist EXCEPT !.last_write[p] = NoWrite]
  /\ UNCHANGED <<portVars, edge, edge_lock, buf_lock_q, reader_buf, connect_wait,
                 disconnect_occured, thr>>

\* Lines 468-478: wake one waiter of the critical section; Ready with the data
\* through bytes_as_typed (whose assertion panics on a partial element), or
\* Pending.
ReadPop(k) ==
  LET p == task[k].port
      size == SizeOf(meta[p].in_ty) IN
  /\ task[k].pc = "r_pop"
  /\ buf_lock_q' = [buf_lock_q EXCEPT ![p] = IF @ = <<>> THEN @ ELSE Tail(@)]
  /\ task' = [j \in DOMAIN task |->
       LET w == [task[j] EXCEPT
                   !.notified = @ \/ (buf_lock_q[p] # <<>> /\ j = Head(buf_lock_q[p]))] IN
       IF j # k THEN w
       ELSE IF ~task[k].has THEN [w EXCEPT !.pc = "pending"]
       ELSE IF Len(task[k].got) % size # 0
            THEN [w EXCEPT !.pc = "panicked", !.res = "panic"]
            ELSE [w EXCEPT !.pc = "idle", !.res = "Ready",
                           !.out = bytes_as_typed(task[k].got, size)]]
  /\ hist' = IF task[k].has /\ Len(task[k].got) % size = 0
             THEN [hist EXCEPT !.rcvd[p] = @ \o bytes_as_typed(task[k].got, size)]
             ELSE hist
  /\ UNCHANGED <<portVars, edge, edge_lock, buf_lock, buffer, reader_buf,
                 connect_wait, disconnect_occured, thr>>

\* WriteFuture::poll, lines 493-504: lock port.edge, resolve the partner,
\* unlock.
WriteResolve(k) ==
  LET p == task[k].port
      o == Resolve(p) IN
  /\ task[k].pc = "w_resolve"
  /\ edge_lock[p] = Free
  /\ task' = [task EXCEPT ![k].other = o,
                          ![k].pc = IF o = None THEN "w_reg" ELSE "w_cas",
                          ![k].after_disc = hist.events[p] > 0]
  /\ UNCHANGED <<portVars, edge, edge_lock, buf_lock, buf_lock_q, buffer,
                 reader_buf, connect_wait, disconnect_occured, thr, hist>>

\* Lines 499-501: no partner; push the waker on connect_wait, return Pending.
WriteRegister(k) ==
  LET p == task[k].port IN
  /\ task[k].pc = "w_reg"
  /\ connect_wait' = [connect_wait EXCEPT ![p] = Append(@, k)]
  /\ task' = [task EXCEPT ![k].pc = "pending"]
  /\ UNCHANGED <<portVars, edge, edge_lock, buf_lock, buf_lock_q, buffer,
                 reader_buf, disconnect_occured, thr, hist>>

\* Lines 506-511 and 518-526: the compare-and-swap on the partner's buf_lock.
WriteCas(k) ==
  LET o == task[k].other IN
  /\ task[k].pc = "w_cas"
  /\ IF buf_lock[o] = FALSE
     THEN /\ buf_lock' = [buf_lock EXCEPT ![o] = TRUE]
          /\ task' = [task EXCEPT ![k].pc = "w_cs"]
     ELSE /\ UNCHANGED buf_lock
          /\ task' = [task EXCEPT ![k].pc = IF task[k].try = 0 THEN "w_push" ELSE "pending"]
  /\ UNCHANGED <<portVars, edge, edge_lock, buf_lock_q, buffer, reader_buf,
                 connect_wait, disconnect_occured, thr, hist>>

\* Line 522: other.buf_lock_q.push(cx.waker()), then the second try.
WritePush(k) ==
  LET o == task[k].other IN
  /\ task[k].pc = "w_push"
  /\ buf_lock_q' = [buf_lock_q EXCEPT ![o] = Append(@, k)]
  /\ task' = [task EXCEPT ![k].pc = "w_cas", ![k].try = 1]
  /\ UNCHANGED <<portVars, edge, edge_lock, buf_lock, buffer, reader_buf,
                 connect_wait, disconnect_occured, thr, hist>>

\* A variant that puts the bytes at the front of the partner's buffer.
WriteCs_Front(k) ==
  LET o == task[k].other IN
  /\ task[k].pc = "w_cs"
  /\ buffer' = [buffer EXCEPT ![o] = task[k].data \o @]
  /\ buf_lock' = [buf_lock EXCEPT ![o] = FALSE]
  /\ task' = [task EXCEPT ![k].pc = "w_pop", ![k].wseq = hist.writes + 1]
  /\ hist' = [hist EXCEPT
       !.writes = @ + 1,
       !.last_write[o] = [seq |-> hist.writes + 1, q |-> buffer[o],
                          s |-> task[k].src, done |-> FALSE,
                          first |-> hist.fresh[o]],
       !.fresh[o] = FALSE,
       !.sent[o] = @ \o task[k].src]
  /\ UNCHANGED <<portVars, edge, edge_lock, buf_lock_q, reader_buf, connect_wait,
                 disconnect_occured, thr>>

\* Lines 512-516: append the bytes to the partner's buffer, leave the
\* critical section.
WriteCs(k) ==
  LET o == task[k].other IN
  /\ task[k].pc = "w_cs"
  /\ buffer' = [buffer EXCEPT ![o] = @ \o task[k].data]
  /\ buf_lock' = [buf_lock EXCEPT ![o] = FALSE]
  /\ task' = [task EXCEPT ![k].pc = "w_pop", ![k].wseq = hist.writes + 1]
  /\ hist' = [hist EXCEPT
       !.writes = @ + 1,
       !.last_write[o] = [seq |-> hist.writes + 1, q |-> buffer[o],
                          s |-> task[k].src, done |-> FALSE,
                          first |-> hist.fresh[o]],
       !.fresh[o] = FALSE,
       !.sent[o] = @ \o task[k].src]
  /\ UNCHANGED <<portVars, edge, edge_lock, buf_lock_q, reader_buf, connect_wait,
                 disconnect_occured, thr>>

\* Line 530: wake one waiter of the partner's critical section.
WritePop(k) ==
  LET o == task[k].other IN
  /\ task[k].pc = "w_pop"
  /\ buf_lock_q' = [buf_lock_q EXCEPT ![o] = IF @ = <<>> THEN @ ELSE Tail(@)]
  /\ task' = [j \in DOMAIN task |->
       LET w == [task[j] EXCEPT
                   !.notified = @ \/ (buf_lock_q[o] # <<>> /\ j = Head(buf_lock_q[o]))] IN
       IF j = k THEN [w EXCEPT !.pc = "w_take"] ELSE w]
  /\ UNCHANGED <<portVars, edge, edge_lock, buf_lock, buffer, reader_buf,
                 connect_wait, disconnect_occured, thr, hist>>

\* A variant that fails the write when its port's edge is gone by then.
WriteTake_FailIfDisconnected(k) ==
  LET o == task[k].other IN
  /\ task[k].pc = "w_take"
  /\ reader_buf' = [reader_buf EXCEPT ![o] = None]
  /\ task' = [j \in DOMAIN task |->
       LET w == [task[j] EXCEPT !.notified = @ \/ j = reader_buf[o]] IN
       IF j = k
       THEN [w EXCEPT !.pc = "idle",
                      !.res = IF Resolve(task[k].port) = None
                              THEN "Disconnected" ELSE "Ready"]
       ELSE w]
  /\ hist' = [hist EXCEPT !.last_write[o] =
       IF @.seq = task[k].wseq THEN [@ EXCEPT !.done = TRUE] ELSE @]
  /\ UNCHANGED <<portVars, edge, edge_lock, buf_lock, buf_lock_q, buffer,
                 connect_wait, disconnect_occured, thr>>

\* Lines 533-535: take and wake the partner's pending reader; Ready.
WriteTake(k) ==
  LET o == task[k].other IN
  /\ task[k].pc = "w_take"
  /\ reader_buf' = [reader_buf EXCEPT ![o] = None]
  /\ task' = [j \in DOMAIN task |->
       LET w == [task[j] EXCEPT !.notified = @ \/ j = reader_buf[o]] IN
       IF j = k THEN [w EXCEPT !.pc = "idle", !.res = "Ready"] ELSE w]
  /\ hist' = [hist EXCEPT !.last_write[o] =
       IF @.seq = task[k].wseq THEN [@ EXCEPT !.done = TRUE] ELSE @]
  /\ UNCHANGED <<portVars, edge, edge_lock, buf_lock, buf_lock_q, buffer,
                 connect_wait, disconnect_occured, thr>>

\* The connection protocol alone: two threads, no read or write in flight.
Init ==
  /\ InitPorts({1, 2}, {MetaPort("u16", "u16"), MetaPort("u8", "u16")})
  /\ thr = [t \in ThreadIds |-> IdleThread(Ports \X Ports, Ports, MaxOps)]
  /\ task = <<>>
  /\ hist = InitHist

Next ==
  \/ \E t \in DOMAIN thr : CallConnect(t)
  \/ \E t \in DOMAIN thr : ConnectLockA(t)
  \/ \E t \in DOMAIN thr : ConnectLockB(t)
  \/ \E t \in DOMAIN thr : ConnectSetA(t)
  \/ \E t \in DOMAIN thr : ConnectSetB(t)
  \/ \E t \in DOMAIN thr : ConnectDrainSelf(t)
  \/ \E t \in DOMAIN thr : ConnectDrainOther(t)
  \/ \E t \in DOMAIN thr : CallDisconnect(t)
  \/ \E t \in DOMAIN thr : DisconnectEdge(t)
  \/ \E t \in DOMAIN thr : DisconnectLock1(t)
  \/ \E t \in DOMAIN thr : DisconnectLock2(t)
  \/ \E t \in DOMAIN thr : DisconnectClearSelf(t)
  \/ \E t \in DOMAIN thr : DisconnectClearOther(t)
  \/ \E t \in DOMAIN thr : AbortCas(t)
  \/ \E t \in DOMAIN thr : AbortCs(t)
  \/ \E t \in DOMAIN thr : AbortPop(t)

Spec == Init /\ [][Next]_vars

\* The channel: one thread connecting and disconnecting ports 1 and 2 (and
\* trying to connect port 1 to the last port, whose type differs), a task
\* writing to port 1 and a task reading from port 2.
WriterId == 201
ReaderId == 202
InitIO ==
  /\ InitPorts({1}, {MetaPort("u8", "u16")})
  /\ thr = [t \in {101} |-> IdleThread({<<1, 2>>, <<2, 1>>, <<1, NPorts>>}, {1, 2}, MaxIOOps)]
  /\ task = [k \in {WriterId, ReaderId} |->
              IF k = WriterId THEN IdleTask("write", 1, MaxWrites)
              ELSE IdleTask("read", 2, MaxReads)]
  /\ hist = InitHist

NextTask ==
  \/ \E k \in DOMAIN task : StartRead(k)
  \/ \E k \in DOMAIN task : StartWrite(k)
  \/ \E k \in DOMAIN task : Repoll(k)
  \/ \E k \in DOMAIN task : ReadCas(k)
  \/ \E k \in DOMAIN task : ReadPush(k)
  \/ \E k \in DOMAIN task : ReadCsDisconnected(k)
  \/ \E k \in DOMAIN task : ReadCsRegister(k)
  \/ \E k \in DOMAIN task : ReadCsDrain(k)
  \/ \E k \in DOMAIN task : ReadPop(k)
  \/ \E k \in DOMAIN task : WriteResolve(k)
  \/ \E k \in DOMAIN task : WriteRegister(k)
  \/ \E k \in DOMAIN task : WriteCas(k)
  \/ \E k \in DOMAIN task : WritePush(k)
  \/ \E k \in DOMAIN task : WriteCs(k)
  \/ \E k \in DOMAIN task : WritePop(k)
  \/ \E k \in DOMAIN task : WriteTake(k)

NextIO == Next \/ NextTask

SpecIO == InitIO /\ [][NextIO]_vars

\* Repeated disconnects: the thread connects ports 1 and 2 and disconnects
\* them again, more often than above; the writer writes once.
InitDisc ==
  /\ InitPorts({1}, {MetaPort("u8", "u16")})
  /\ thr = [t \in {101} |-> IdleThread({<<1, 2>>}, {1, 2}, MaxDiscOps)]
  /\ task = [k \in {WriterId, ReaderId} |->
              IF k = WriterId THEN IdleTask("write", 1, 1)
              ELSE IdleTask("read", 2, MaxReads)]
  /\ hist = InitHist

SpecDisc == InitDisc /\ [][NextIO]_vars

\* Mixed element sizes: the last port reads u16 and writes u8.  The thread
\* tries to connect it to port 2, which reads and writes u16, and connects
\* ports 1 and 2; a writer on each of ports 1 and 3, a reader on port 2.
Writer8Id == 203
InitTypes ==
  /\ InitPorts({1}, {MetaPort("u16", "u8")})
  /\ thr = [t \in {101} |-> IdleThread({<<1, 2>>, <<NPorts, 2>>}, {2}, MaxTypeOps)]
  /\ task = [k \in {WriterId, ReaderId, Writer8Id} |->
              IF k = WriterId THEN IdleTask("write", 1, 1)
              ELSE IF k = Writer8Id THEN IdleTask("write", NPorts, 1)
              ELSE IdleTask("read", 2, MaxReads)]
  /\ hist = InitHist

SpecTypes == InitTypes /\ [][NextIO]_vars

\* Two tasks read from port 2, each once, the second after the read of the
\* first has completed or failed; the writer on port 1 writes twice, the
\* thread connects ports 1 and 2 and disconnects them.
Reader2Id == 204
InitTurns ==
  /\ InitPorts({1}, {MetaPort("u16", "u16")})
  /\ thr = [t \in {101} |-> IdleThread({<<1, 2>>}, {1}, MaxTurnOps)]
  /\ task = [k \in {WriterId, ReaderId, Reader2Id} |->
              IF k = WriterId THEN IdleTask("write", 1, MaxWrites)
              ELSE IF k = ReaderId THEN IdleTask("read", 2, 1)
              ELSE [IdleTask("read", 2, 1) EXCEPT !.after = ReaderId]]
  /\ hist = InitHist

SpecTurns == InitTurns /\ [][NextIO]_vars

\* Interface::remove_port, the Arc it returns dropped: the last owning
\* reference to port p goes away and the port is destroyed, its edge never
\* disconnected.  No call and no future holds a reference to the port.
DropPort(p) ==
  /\ alive[p]
  /\ \A t \in DOMAIN thr :
       thr[t].pc # "idle" => p \notin {thr[t].self, thr[t].other}
  /\ \A k \in DOMAIN task :
       /\ task[k].port # p
       /\ task[k].pc \notin {"idle", "pending"} => task[k].other # p
  /\ alive' = [alive EXCEPT ![p] = FALSE]
  /\ UNCHANGED <<graph, meta, edge, edge_lock, buf_lock, buf_lock_q, buffer,
                 reader_buf, connect_wait, disconnect_occured, thr, task, hist>>

\* Ports that are destroyed while connected: the thread connects port 1 to
\* port 2 or 3 and disconnects it; port 2, which no task uses, can be
\* destroyed at any time between the calls.
InitDrop ==
  /\ InitPorts({1}, {MetaPort("u16", "u16")})
  /\ thr = [t \in {101} |->
              IdleThread({<<1, 2>>, <<1, NPorts>>, <<NPorts, 1>>}, {1}, MaxDropOps)]
  /\ task = [k \in {WriterId, ReaderId} |->
              IF k = WriterId THEN IdleTask("write", 1, 1)
              ELSE IdleTask("read", NPorts, 1)]
  /\ hist = InitHist

NextDrop ==
  \/ NextIO
  \/ \E p \in Ports : DropPort(p)

SpecDrop == InitDrop /\ [][NextDrop]_vars

\* One step of a call thread t is in, one step of a poll of task k's future
\* (the calls and the creation of futures are the application's to make).
ThreadStep(t) ==
  \/ ConnectLockA(t) \/ ConnectLockB(t) \/ ConnectSetA(t)
  \/ ConnectSetB(t) \/ ConnectDrainSelf(t) \/ ConnectDrainOther(t)
  \/ DisconnectEdge(t) \/ DisconnectLock1(t)
  \/ DisconnectLock2(t) \/ DisconnectClearSelf(t) \/ DisconnectClearOther(t)
  \/ AbortCas(t) \/ AbortCs(t) \/ AbortPop(t)

TaskStep(k) ==
  \/ Repoll(k)
  \/ ReadCas(k) \/ ReadPush(k) \/ ReadCsDisconnected(k) \/ ReadCsRegister(k)
  \/ ReadCsDrain(k) \/ ReadPop(k)
  \/ WriteResolve(k) \/ WriteRegister(k) \/ WriteCas(k) \/ WritePush(k)
  \/ WriteCs(k) \/ WritePop(k) \/ WriteTake(k)

\* Fair scheduling: a thread inside a call eventually takes its next step,
\* and the executor eventually polls a task that was woken and lets a running
\* poll go on; nothing obliges the application to make a further call.  One
\* connect and one disconnect, one write, one read at most.
InitLive ==
  /\ InitPorts({1}, {MetaPort("u8", "u16")})
  /\ thr = [t \in {101} |-> IdleThread({<<1, 2>>}, {1, 2}, MaxLiveOps)]
  /\ task = [k \in {WriterId, ReaderId} |->
              IF k = WriterId THEN IdleTask("write", 1, 1)
              ELSE IdleTask("read", 2, 1)]
  /\ hist = InitHist

Fairness ==
  /\ \A t \in {101} : WF_vars(ThreadStep(t))
  /\ \A k \in {WriterId, ReaderId} : WF_vars(TaskStep(k))

SpecLive == InitLive /\ [][NextIO]_vars /\ Fairness

\* ------------------------------------------------------------- properties

\* A call of connect that has returned, and one that is still running.
Returned(t, op) == thr[t].op = op /\ thr[t].pc = "idle"
InConnect(t) ==
  thr[t].pc \in {"c_lock_a", "c_lock_b", "c_set_a", "c_set_b", "c_drain_self", "c_drain_other"}

\* C1: edge symmetry.  Whenever neither of two ports' edge mutexes is held,
\* the edge of the one resolves to the other if and only if the edge of the
\* other resolves to the one: no interleaving of connect and disconnect
\* exposes a one-sided edge.
C1_EdgeSymmetry ==
  \A a \in Ports, b \in Ports :
    (edge_lock[a] = Free /\ edge_lock[b] = Free)
      => (Resolve(a) = b <=> Resolve(b) = a)

\* C1's case: an edge between ports 1 and 2 with no edge mutex held, formed
\* after racing calls: one thread has disconnected and the other connected.
C1_Witness ==
  /\ \A p \in Ports : edge_lock[p] = Free
  /\ Resolve(1) = 2 /\ Resolve(2) = 1
  /\ \E t \in DOMAIN thr : Returned(t, "disconnect") /\ thr[t].res = "Ok"
  /\ \E t \in DOMAIN thr : Returned(t, "connect") /\ thr[t].res = "Ok"

\* The step by which a call of connect fails AlreadyConnected.
FailsAlreadyConnected(t) ==
  /\ thr[t].pc = "c_lock_b"
  /\ thr'[t].pc = "idle"
  /\ thr'[t].res = "AlreadyConnected"

\* The step by which a call of connect returns Ok.
ReturnsOk(t) ==
  /\ thr[t].pc = "c_drain_other"
  /\ thr'[t].pc = "idle"

\* C2, as stated: connect on two distinct ports succeeds when neither has an
\* edge, and fails AlreadyConnected whenever one of them has (whatever the
\* other port's type), leaving every edge as it was.
C2_AsStated ==
  \A t \in DOMAIN thr :
    (Returned(t, "connect") /\ thr[t].self # thr[t].other)
      => /\ thr[t].saw => thr[t].res = "AlreadyConnected"
         /\ (~thr[t].saw /\ ~TypeMismatch(thr[t].self, thr[t].other))
              => thr[t].res = "Ok"

\* C2, amended: connect on two distinct type-compatible ports returns Ok,
\* having recorded the edge on both, when neither port's edge resolved under
\* the two edge locks, and otherwise fails AlreadyConnected, leaving every
\* edge as it was.
C2_ConnectOnceCompatible ==
  /\ [](\A t \in DOMAIN thr :
         /\ (Returned(t, "connect") /\ thr[t].self # thr[t].other
               /\ ~TypeMismatch(thr[t].self, thr[t].other))
              => /\ thr[t].saw <=> thr[t].res = "AlreadyConnected"
                 /\ ~thr[t].saw <=> thr[t].res = "Ok"
         /\ InConnect(t) => ~TypeMismatch(thr[t].self, thr[t].other))
  /\ [][\A t \in DOMAIN thr :
         /\ FailsAlreadyConnected(t) => edge' = edge
         /\ ReturnsOk(t) => /\ thr'[t].res = "Ok"
                            /\ edge'[thr[t].self] = thr[t].other
                            /\ edge'[thr[t].other] = thr[t].self]_vars

\* C2's case: with the edge 1-2 in place, a connect of the connected port 1
\* to a third, compatible, unconnected port has failed AlreadyConnected.
C2_Witness ==
  \E t \in DOMAIN thr :
    /\ Returned(t, "connect") /\ thr[t].res = "AlreadyConnected"
    /\ {thr[t].self, thr[t].other} = {1, NPorts}
    /\ ~TypeMismatch(1, NPorts)
    /\ Resolve(1) = 2 /\ Resolve(2) = 1 /\ Resolve(NPorts) = None

\* The step by which a thread calls connect(s, o).
CallsConnect(t) ==
  /\ thr[t].pc = "idle"
  /\ thr'[t].op = "connect"
  /\ thr'[t].ops = thr[t].ops + 1

ReadAfterWrite(k) ==
  /\ task[k].kind = "read" /\ task[k].all
  /\ task[k].pc = "idle" /\ task[k].res = "Ready"
  /\ task[k].lw0.seq # 0 /\ task[k].lw0.done
  /\ task[k].lw.seq = task[k].lw0.seq

\* C4, as stated: after a connect of A and B has returned Ok, whatever the
\* earlier history of the two ports, a write(A, S) that completes followed
\* by a read(B) returns exactly S.  Taken for the first write to B's buffer
\* since the connect.
C4_AsStated ==
  \A k \in DOMAIN task :
    (ReadAfterWrite(k) /\ task[k].lw.first) => task[k].out = task[k].lw.s

\* C4, amended: a write(A, S) that completes followed by a read(B) that
\* returns data returns the elements that were queued in B's buffer when S
\* was appended, followed by the elements of S in order, each with its value;
\* it returns exactly S when the buffer was empty then.
C4_RoundTrip ==
  \A k \in DOMAIN task :
    ReadAfterWrite(k)
      => LET size == SizeOf(meta[task[k].port].in_ty) IN
         /\ task[k].out = bytes_as_typed(task[k].lw.q, size) \o task[k].lw.s
         /\ task[k].lw.q = <<>> => task[k].out = task[k].lw.s

\* C4's case: the two-element sequence was written to an empty buffer as the
\* first write since the connect, and the read that followed returned it.
C4_Witness ==
  \E k \in DOMAIN task :
    /\ ReadAfterWrite(k) /\ task[k].lw.first
    /\ task[k].lw.q = <<>>
    /\ task[k].lw.s = <<258, 1>>
    /\ task[k].out = <<258, 1>>

\* The steps of disconnect after its checks, and the step by which it
\* returns Ok.
InDisconnect(t) ==
  thr[t].pc \in {"d_clear_self", "d_clear_other", "da_cas", "da_cs", "da_pop"}
DisconnectReturnsOk(t) ==
  /\ thr[t].op = "disconnect"
  /\ thr[t].pc = "da_pop"
  /\ thr'[t].pc = "idle"

\* C5: a successful disconnect(A) of a port connected to B clears both edges
\* while it holds both edge locks, and both are clear when it returns Ok; an
\* edge is cleared by nothing else.  A poll of a write on A that finds no
\* partner pushes its waker on connect_wait and returns Pending, and appends
\* nothing to any buffer.
C5_DisconnectAtomic ==
  /\ [](\A t \in DOMAIN thr :
         InDisconnect(t) => /\ edge_lock[thr[t].self] = t
                            /\ edge_lock[thr[t].other] = t)
  /\ [][/\ \A t \in DOMAIN thr :
            DisconnectReturnsOk(t)
              => /\ thr'[t].res = "Ok"
                 /\ edge'[thr[t].self] = None /\ edge'[thr[t].other] = None
                 /\ Resolve(thr[t].self)' = None /\ Resolve(thr[t].other)' = None
         /\ \A p \in Ports :
            (edge[p] # None /\ edge'[p] = None)
              => \E u \in DOMAIN thr :
                   /\ InDisconnect(u) /\ p \in {thr[u].self, thr[u].other}
                   /\ edge_lock[thr[u].self] = u /\ edge_lock[thr[u].other] = u
         /\ \A k \in DOMAIN task :
            /\ (task[k].pc = "w_resolve" /\ task'[k].pc # "w_resolve"
                  /\ Resolve(task[k].port) = None)
                 => task'[k].pc = "w_reg" /\ buffer' = buffer
            /\ (task[k].pc = "w_reg" /\ task'[k].pc # "w_reg")
                 => /\ task'[k].pc = "pending" /\ buffer' = buffer
                    /\ connect_wait'[task[k].port]
                         = Append(connect_wait[task[k].port], k)]_vars

\* C5's case: disconnect has returned Ok, both edges are clear, and a write
\* on port 1 polled after it has pushed its waker on connect_wait and is
\* suspended, nothing having been appended.
C5_Witness ==
  /\ \E t \in DOMAIN thr : Returned(t, "disconnect") /\ thr[t].res = "Ok"
  /\ edge[1] = None /\ edge[2] = None
  /\ \E k \in DOMAIN task :
       /\ task[k].kind = "write" /\ task[k].port = 1
       /\ task[k].pc = "pending" /\ task[k].after_disc
       /\ task[k].other = None
       /\ k \in Range(connect_wait[1])
  /\ hist.writes = 0 /\ buffer[2] = <<>>

\* C6: a read that is suspended as the registered pending reader of a port
\* when a disconnect of its edge runs disconnect_abort on that port is woken
\* and, under fair scheduling, resolves with Disconnected: it does not stay
\* suspended forever.
C6_SuspendedReadFails ==
  task[ReaderId].severed ~> task[ReaderId].res = "Disconnected"

\* The Disconnected failures a port has delivered, with the one its set flag
\* has yet to deliver.
Notified(p) == hist.failures[p] + (IF disconnect_occured[p] THEN 1 ELSE 0)

\* C7, as stated: every disconnect event of a port causes exactly one
\* Disconnected failure of a read on that port: the failures delivered,
\* with the one a set flag will deliver to the next read, are as many as the
\* disconnect events.
C7_AsStated ==
  \A p \in Ports : Notified(p) = hist.events[p]

\* C7, amended: every disconnect event of a port causes at most one
\* Disconnected failure of a read on that port, and at least one event
\* is notified once there was any: the read that observes the flag clears it
\* and fails, no read fails without clearing a set flag, and an event that
\* finds the flag still set adds no failure.
C7_AtMostOncePerEvent ==
  /\ [](\A p \in Ports :
         /\ Notified(p) <= hist.events[p]
         /\ hist.events[p] > 0 => Notified(p) >= 1)
  /\ [][\A p \in Ports :
         /\ hist.failures'[p] # hist.failures[p]
              => /\ hist.failures'[p] = hist.failures[p] + 1
                 /\ disconnect_occured[p] /\ ~disconnect_occured'[p]
         /\ hist.events'[p] # hist.events[p]
              => /\ disconnect_occured'[p]
                 /\ Notified(p)' = IF disconnect_occured[p] THEN Notified(p)
                                    ELSE Notified(p) + 1]_vars

\* C7's case: after one disconnect event of port 2 a first read has failed
\* Disconnected and cleared the flag, and a second read has polled and is
\* suspended, not failed.
C7_Witness ==
  /\ hist.events[2] = 1 /\ hist.failures[2] = 1
  /\ ~disconnect_occured[2]
  /\ \E k \in DOMAIN task :
       /\ task[k].kind = "read" /\ task[k].port = 2
       /\ task[k].ops = 2 /\ task[k].pc = "pending"
       /\ reader_buf[2] = k

\* C8: a read fails with Disconnected only if its port had a disconnect
\* event after the read began, or a disconnect was under way when it began;
\* a read started after the disconnect had completed does not fail on
\* account of it.
C8_OnlyIfDisconnectedSince ==
  \A k \in DOMAIN task :
    (task[k].kind = "read" /\ task[k].res = "Disconnected")
      => task[k].disc_since

\* The elements queued on a port and the elements a read needs, in elements
\* of the port's input type.
Queued(p) == Len(buffer[p]) \div SizeOf(meta[p].in_ty)
Asked(k) ==
  IF task[k].all THEN 1 ELSE task[k].n \div SizeOf(meta[task[k].port].in_ty)

\* The step by which a poll of task k's read leaves the critical section,
\* and its outcomes: the data was drained, the read is suspended, the read
\* has failed.
ReadDecides(k) ==
  task[k].kind = "read" /\ task[k].pc = "r_cs" /\ task'[k].pc # "r_cs"
Drains(k) == task'[k].pc = "r_pop" /\ task'[k].has
Suspends(k) == task'[k].pc = "r_pop" /\ ~task'[k].has
FailsDisconnected(k) == task'[k].pc = "idle" /\ task'[k].res = "Disconnected"

\* Drained data is the first m bytes of the buffer, the rest stays queued.
DrainsFirst(k, m) ==
  LET p == task[k].port IN
  /\ task'[k].got = SubSeq(buffer[p], 1, m)
  /\ buffer' = [buffer EXCEPT ![p] = SubSeq(buffer[p], m + 1, Len(buffer[p]))]

\* C9, as stated: read_n(B, n) completes only with at least n elements
\* queued and then takes exactly the first n, leaving the rest; read(B)
\* completes only with at least one element queued and takes everything;
\* with fewer queued every poll leaves the buffer untouched and the read
\* suspended.  Taken for the polls that do not find the flag of a disconnect
\* that had completed before the read began.
C9_AsStated ==
  [][\A k \in DOMAIN task :
      (ReadDecides(k)
        /\ (disconnect_occured[task[k].port] => task[k].disc_since))
        => /\ Drains(k)
                => /\ Queued(task[k].port) >= Asked(k)
                   /\ DrainsFirst(k, IF task[k].all
                                      THEN Len(buffer[task[k].port])
                                      ELSE task[k].n)
           /\ Queued(task[k].port) < Asked(k)
                => buffer' = buffer /\ Suspends(k)]_vars

\* C9, amended: the same, but with fewer elements queued a poll leaves the
\* buffer untouched and either leaves the read suspended or, the port's
\* disconnect flag being set, fails it with Disconnected.  What a
\* completed read returns is the drained bytes as elements: n of them for
\* read_n, at least one for read.
C9_ReadN ==
  /\ [][\A k \in DOMAIN task :
         /\ ReadDecides(k)
              => /\ Drains(k)
                      => /\ Queued(task[k].port) >= Asked(k)
                         /\ DrainsFirst(k, IF task[k].all
                                            THEN Len(buffer[task[k].port])
                                            ELSE task[k].n)
                 /\ Queued(task[k].port) < Asked(k)
                      => /\ buffer' = buffer
                         /\ \/ Suspends(k)
                            \/ /\ disconnect_occured[task[k].port]
                               /\ FailsDisconnected(k)
         /\ (task[k].kind = "read" /\ task'[k].pc # task[k].pc
               /\ task[k].pc # "r_cs")
              => buffer' = buffer]_vars
  /\ [](\A k \in DOMAIN task :
         (task[k].kind = "read" /\ task[k].pc = "idle" /\ task[k].res = "Ready")
           => /\ task[k].out
                   = bytes_as_typed(task[k].got, SizeOf(meta[task[k].port].in_ty))
              /\ IF task[k].all THEN Len(task[k].out) >= 1
                 ELSE Len(task[k].out) = Asked(k))

\* C9's case: a read_n of one element has completed with the first of the
\* two elements that were queued, and the second is still queued.
C9_Witness ==
  \E k \in DOMAIN task :
    /\ task[k].kind = "read" /\ ~task[k].all
    /\ task[k].pc = "idle" /\ task[k].res = "Ready"
    /\ task[k].out = <<258>>
    /\ buffer[task[k].port] = <<1, 0>>

\* A write of task k that found no partner, pushed its waker on connect_wait
\* and is suspended, not woken since.
ParkedForConnect(k) ==
  /\ task[k].kind = "write"
  /\ task[k].pc = "pending" /\ ~task[k].notified
  /\ task[k].other = None
  /\ k \in Range(connect_wait[task[k].port])

\* C11: a write does not remain suspended waiting for a connection while its
\* port is connected: once a connect of its port has returned and no call
\* holds the port's edge lock, the write has been woken or is not parked.
C11_ConnectWakesWrite ==
  \A k \in DOMAIN task :
    (Connected(task[k].port) /\ edge_lock[task[k].port] = Free)
      => ~ParkedForConnect(k)

\* The step by which task k pushes its waker on its port's connect_wait, and
\* the steps by which thread t drains the connect_wait of port p.
Registers(k) == task[k].pc = "w_reg" /\ task'[k].pc # "w_reg"
DrainsWaiters(t, p) ==
  \/ thr[t].pc = "c_drain_self" /\ thr'[t].pc # "c_drain_self" /\ p = thr[t].self
  \/ thr[t].pc = "c_drain_other" /\ thr'[t].pc # "c_drain_other" /\ p = thr[t].other

\* C18: connect_wait of a port is read and modified only by the holder of
\* the port's edge mutex: the connect that drains it holds the mutex, and so
\* does the write that registers in it.
C18_ConnectWaitUnderEdgeLock ==
  [][\A p \in Ports :
      connect_wait'[p] # connect_wait[p]
        => \/ \E t \in DOMAIN thr : DrainsWaiters(t, p) /\ edge_lock[p] = t
           \/ \E k \in DOMAIN task :
                Registers(k) /\ task[k].port = p /\ edge_lock[p] = k]_vars

\* The positions of a poll of a write before and after it has appended.
BeforeAppend(k) ==
  task[k].pc \in {"w_resolve", "w_reg", "w_cas", "w_push", "w_cs", "pending"}
AfterAppend(k) == task[k].pc \in {"w_pop", "w_take"}

\* C12: a write never resolves with an error.  Each poll of a write returns
\* Pending, having appended nothing, or Ready, and a write that returns Ready
\* has appended the bytes of its data once, in one step, to the buffer of the
\* partner it resolved; nothing else makes a buffer grow.
C12_WriteNeverFails ==
  /\ [](\A k \in DOMAIN task :
         task[k].kind = "write"
           => /\ task[k].res \in {"none", "Ready"}
              /\ BeforeAppend(k) => task[k].wseq = 0 /\ task[k].res = "none"
              /\ AfterAppend(k) => task[k].wseq # 0 /\ task[k].res = "none"
              /\ (task[k].pc = "idle" /\ task[k].ops > 0)
                   => task[k].res = "Ready" /\ task[k].wseq # 0)
  /\ [][/\ \A k \in DOMAIN task :
            (task[k].kind = "write" /\ task'[k].wseq # task[k].wseq
              /\ task'[k].wseq # 0)
              => /\ task[k].wseq = 0 /\ task[k].other # None
                 /\ hist.writes' = hist.writes + 1
                 /\ buffer' = [buffer EXCEPT ![task[k].other] =
                      @ \o typed_as_bytes(task[k].src,
                                           SizeOf(meta[task[k].port].out_ty))]
         /\ \A p \in Ports :
            Len(buffer'[p]) > Len(buffer[p])
              => \E w \in DOMAIN task :
                   /\ task[w].kind = "write" /\ task[w].other = p
                   /\ task[w].wseq = 0 /\ task'[w].wseq # 0]_vars

\* C12's case: a write has appended its data to the partner it had resolved
\* although a disconnect has cleared its port's edge and notified the
\* partner in the meantime, and has returned Ready.
C12_Witness ==
  \E k \in DOMAIN task :
    /\ task[k].kind = "write" /\ task[k].pc = "idle" /\ task[k].res = "Ready"
    /\ edge[task[k].port] = None
    /\ hist.events[task[k].other] = 1
    /\ hist.last_write[task[k].other].seq = task[k].wseq
    /\ hist.last_write[task[k].other].q = <<>>
    /\ disconnect_occured[task[k].other]
    /\ buffer[task[k].other] = task[k].data

\* Port p has no partner or its partner was destroyed; its edge still refers
\* to a destroyed partner.
NoLivePartner(p) == edge[p] = None \/ ~alive[edge[p]]
Dangling(p) == edge[p] # None /\ ~alive[edge[p]]

\* C13: a destroyed partner is no partner.  With the edges of both ports
\* referring to nothing or to a destroyed port, connect passes its check under
\* the two locks and goes on to record the edge; disconnect of such a port
\* fails NotConnected and changes no edge and no flag; a write on it goes to
\* register on connect_wait; and no call or poll panics.
C13_DestroyedPartnerIsNone ==
  /\ [](/\ \A t \in DOMAIN thr : thr[t].pc # "panicked"
        /\ \A k \in DOMAIN task : task[k].pc # "panicked")
  /\ [][/\ \A t \in DOMAIN thr :
            /\ (thr[t].pc = "c_lock_b" /\ thr'[t].pc # "c_lock_b"
                  /\ NoLivePartner(thr[t].self) /\ NoLivePartner(thr[t].other))
                 => thr'[t].pc = "c_set_a"
            /\ ReturnsOk(t)
                 => /\ Resolve(thr[t].self)' = thr[t].other
                    /\ Resolve(thr[t].other)' = thr[t].self
            /\ (thr[t].pc = "d_edge" /\ thr'[t].pc # "d_edge"
                  /\ NoLivePartner(thr[t].self))
                 => /\ thr'[t].pc = "idle" /\ thr'[t].res = "NotConnected"
                    /\ edge' = edge
                    /\ disconnect_occured' = disconnect_occured
         /\ \A k \in DOMAIN task :
            (task[k].pc = "w_resolve" /\ task'[k].pc # "w_resolve"
              /\ NoLivePartner(task[k].port))
              => task'[k].pc = "w_reg" /\ buffer' = buffer]_vars

\* C13's case: port 1 was connected to port 2, port 2 was destroyed with no
\* disconnect, and connect of port 1 with port 3 has returned Ok.
C13_Witness ==
  /\ ~alive[2] /\ hist.fresh[2]
  /\ \A p \in Ports : hist.events[p] = 0
  /\ Resolve(1) = NPorts /\ Resolve(NPorts) = 1
  /\ \E t \in DOMAIN thr :
       Returned(t, "connect") /\ thr[t].res = "Ok" /\ thr[t].ops = 2

\* C13's other cases: with port 1's edge still referring to the destroyed
\* port 2, disconnect of port 1 has failed NotConnected and a write on port 1
\* is suspended on connect_wait.
C13_WitnessDangling ==
  /\ Dangling(1) /\ edge[1] = 2
  /\ \E t \in DOMAIN thr :
       Returned(t, "disconnect") /\ thr[t].res = "NotConnected"
  /\ \E k \in DOMAIN task : ParkedForConnect(k) /\ task[k].after_disc = FALSE

\* The elements a read of port p has drained and not yet returned, and the
\* elements still queued on p.
InHand(p) ==
  LET ks == {k \in DOMAIN task :
               /\ task[k].kind = "read" /\ task[k].port = p
               /\ task[k].pc = "r_pop" /\ task[k].has} IN
  IF ks = {} THEN <<>>
  ELSE bytes_as_typed(task[CHOOSE k \in ks : TRUE].got, SizeOf(meta[p].in_ty))
QueuedElems(p) == bytes_as_typed(buffer[p], SizeOf(meta[p].in_ty))

\* C14: strict FIFO per port.  The elements the reads of a port have
\* returned so far, followed by those a read has drained and is about to
\* return and by those still queued, are the elements of the writes to that
\* port's buffer in the order the writes appended them, each write's elements
\* in their original order: none lost, duplicated or reordered.
C14_Fifo ==
  \A p \in Ports :
    hist.rcvd[p] \o InHand(p) \o QueuedElems(p) = hist.sent[p]

\* C14's case: two writes, of one element and then of two, and a read_n and
\* a read that interleaved with them have returned the three elements in
\* the order written.
C14_Witness ==
  /\ hist.sent[2] = <<1, 258, 1>>
  /\ hist.rcvd[2] = <<1, 258, 1>>
  /\ \E k \in DOMAIN task :
       /\ task[k].kind = "read" /\ task[k].port = 2 /\ task[k].ops = 2
       /\ task[k].pc = "idle" /\ task[k].res = "Ready"
       /\ task[k].out = <<258, 1>>

\* The step by which a call of disconnect reads its port's partner, and the
\* step by which it fails.
ReadsPartner(t) == thr[t].pc = "d_edge" /\ thr'[t].pc # "d_edge"
FailsNotConnected(t) ==
  /\ thr[t].op = "disconnect"
  /\ thr[t].pc # "idle" /\ thr'[t].pc = "idle"
  /\ thr'[t].res = "NotConnected"

\* C15: disconnect fails NotConnected exactly when its port's edge resolves
\* to no live partner as the call reads it, and then no edge and no
\* disconnect flag changes; a call that found and locked its partner does
\* not fail.  Every call that returns Ok has raised the notification of
\* each of its two ports once, no other call raises any.  When two calls
\* disconnect(A) and disconnect(B) race on the connected pair A-B, one
\* returns Ok and the other NotConnected (stated for the first connection
\* of A and of B, which both calls found in place).
C15_DisconnectNotConnected ==
  /\ [](/\ \A t \in DOMAIN thr :
            thr[t].op = "disconnect"
              => /\ thr[t].pc # "panicked"
                 /\ thr[t].pc = "idle" => thr[t].res \in {"Ok", "NotConnected"}
        /\ \A p \in Ports :
            (\A t \in DOMAIN thr :
               InDisconnect(t) => p \notin {thr[t].self, thr[t].other})
              => hist.events[p] = hist.okdisc[p]
        /\ \A t1 \in DOMAIN thr, t2 \in DOMAIN thr :
            (/\ t1 # t2
             /\ Returned(t1, "disconnect") /\ thr[t1].saw
             /\ Returned(t2, "disconnect") /\ thr[t2].saw
             /\ hist.conns[thr[t1].self] = 1 /\ hist.conns[thr[t2].self] = 1
             /\ thr[t1].res = "Ok" /\ thr[t1].other = thr[t2].self)
              => thr[t2].res = "NotConnected")
  /\ [][\A t \in DOMAIN thr :
         /\ ReadsPartner(t)
              => (Resolve(thr[t].self) = None <=> FailsNotConnected(t))
         /\ FailsNotConnected(t)
              => /\ thr[t].pc = "d_edge"
                 /\ edge' = edge
                 /\ disconnect_occured' = disconnect_occured
                 /\ hist.events' = hist.events]_vars

\* C15's case: disconnect(1) and disconnect(2) were both called while the
\* edge 1-2 was in place; one has returned Ok, the other NotConnected, and
\* each port's notification was raised once.
C15_Witness ==
  \E t1 \in DOMAIN thr, t2 \in DOMAIN thr :
    /\ Returned(t1, "disconnect") /\ thr[t1].saw /\ thr[t1].self = 1
    /\ Returned(t2, "disconnect") /\ thr[t2].saw /\ thr[t2].self = 2
    /\ thr[t1].res = "Ok" /\ thr[t2].res = "NotConnected"
    /\ hist.conns[1] = 1 /\ hist.conns[2] = 1
    /\ hist.events[1] = 1 /\ hist.events[2] = 1
    /\ disconnect_occured[1] /\ disconnect_occured[2]

\* A writer is inside the critical section of port p's buffer.
WriterInside(p) ==
  \E k \in DOMAIN task :
    task[k].kind = "write" /\ task[k].pc = "w_cs" /\ task[k].other = p

\* C16: whenever no writer is inside a port's buffer critical section, the
\* bytes queued in that port's buffer are a whole multiple of the size of the
\* port's input element type; and the bytes a read or read_n hands to
\* bytes_as_typed are a whole multiple of it too, so that its alignment
\* assertion does not fail.
C16_BufferAligned ==
  /\ \A p \in Ports :
       ~WriterInside(p) => Len(buffer[p]) % SizeOf(meta[p].in_ty) = 0
  /\ \A k \in DOMAIN task :
       (task[k].kind = "read" /\ task[k].pc = "r_pop" /\ task[k].has)
         => Len(task[k].got) % SizeOf(meta[task[k].port].in_ty) = 0

\* C16's case: connect refused the u8-writing port 3 as a partner of port 2,
\* the u16 port 1 wrote to port 2, and a read_n on port 2 is about to rebuild
\* one element from two bytes while more bytes stay queued.
C16_Witness ==
  /\ meta[NPorts].out_ty = "u8" /\ meta[2].in_ty = "u16"
  /\ task[Writer8Id].pc = "pending" /\ Len(task[Writer8Id].data) = 1
  /\ task[ReaderId].pc = "r_pop" /\ task[ReaderId].has
  /\ Len(task[ReaderId].got) = 2
  /\ Len(buffer[2]) = 2

\* The operations inside the critical section of port p: they won the
\* compare-and-swap on p's buf_lock and have not stored false yet.
TasksInside(p) ==
  {k \in DOMAIN task :
     \/ task[k].kind = "read" /\ task[k].pc = "r_cs" /\ task[k].port = p
     \/ task[k].kind = "write" /\ task[k].pc = "w_cs" /\ task[k].other = p}
AbortsInside(p) == {t \in DOMAIN thr : thr[t].pc = "da_cs" /\ thr[t].ab = p}

\* C17: at most one operation is inside a port's critical section at a time,
\* and then buf_lock is set; and every step that changes the port's buffer,
\* its reader_buf or its disconnect_occured flag is a step of the operation
\* that is inside the port's critical section.
C17_AccessUnderBufLock ==
  /\ [](\A p \in Ports :
          /\ Cardinality(TasksInside(p)) + Cardinality(AbortsInside(p)) <= 1
          /\ (TasksInside(p) # {} \/ AbortsInside(p) # {}) => buf_lock[p])
  /\ [][\A p \in Ports :
         (\/ buffer'[p] # buffer[p]
          \/ reader_buf'[p] # reader_buf[p]
          \/ disconnect_occured'[p] # disconnect_occured[p])
           => \/ \E k \in TasksInside(p) : task'[k].pc # task[k].pc
              \/ \E t \in AbortsInside(p) : thr'[t].pc # thr[t].pc]_vars

\* C19: no operation makes more than two attempts on a port's buf_lock
\* without suspending.  A read or write poll attempts once, pushes its waker
\* on buf_lock_q if that failed, attempts once more and returns Pending if
\* that failed too; a disconnect_abort has not failed twice and gone on to a
\* further attempt.
C19_BoundedAttempts ==
  /\ [](/\ \A k \in DOMAIN task : task[k].try \in {0, 1}
        /\ \A t \in DOMAIN thr : thr[t].pc = "da_cas" => thr[t].try < 2)
  /\ [][\A k \in DOMAIN task :
         (/\ task[k].pc \in {"r_cas", "w_cas"}
          /\ task'[k].pc # task[k].pc
          /\ task'[k].pc \notin {"r_cs", "w_cs"})
           => IF task[k].try = 0
              THEN task'[k].pc \in {"r_push", "w_push"}
              ELSE task'[k].pc = "pending"]_vars

\* The step by which a read raises "multiple simultaneous reads from a port
\* are not supported", and the state in which a read that must suspend finds
\* the waker of another task registered.
RaisesSecondReader(k) == task[k].pc = "r_cs" /\ task'[k].pc = "panicked"
FindsOtherReader(k) ==
  /\ task[k].pc = "r_cs"
  /\ ~disconnect_occured[task[k].port]
  /\ NotEnough(task[k].n, Len(buffer[task[k].port]))
  /\ reader_buf[task[k].port] \notin {None, k}

\* C20: a read raises the second-pending-reader panic exactly when it must
\* suspend and finds another task's waker registered on its port (its own
\* waker, registered by an earlier poll, is not fatal); and no read has
\* raised it on a port whose reads were begun strictly one at a time.
C20_SecondReaderOnlyIfConcurrent ==
  /\ [][\A k \in DOMAIN task :
         (task[k].kind = "read" /\ task'[k].pc # task[k].pc)
           => (RaisesSecondReader(k) <=> FindsOtherReader(k))]_vars
  /\ [](\A k \in DOMAIN task :
          (task[k].kind = "read" /\ task[k].pc = "panicked")
            => hist.overlap[task[k].port])

\* The port whose buf_lock task k's future works on, and a task that
\* suspended after its second compare-and-swap on that lock failed: its waker
\* is in the port's buf_lock_q, it is neither the registered pending reader
\* nor waiting for a connect, and nothing has woken it since.
LockPort(k) == IF task[k].kind = "read" THEN task[k].port ELSE task[k].other
ParkedOnBufLock(k) ==
  /\ task[k].pc = "pending" /\ ~task[k].notified
  /\ LockPort(k) # None
  /\ k \in Range(buf_lock_q[LockPort(k)])
  /\ reader_buf[LockPort(k)] # k

\* No call is running and no poll is under way or due: every thread is idle,
\* and every other task is idle or suspended and not woken.
NothingElseRuns(k) ==
  /\ \A t \in DOMAIN thr : thr[t].pc = "idle"
  /\ \A j \in DOMAIN task \ {k} :
       task[j].pc = "idle" \/ (task[j].pc = "pending" /\ ~task[j].notified)

\* C21: no lost wake-up on buf_lock.  No read or write that suspended after
\* failing twice to enter a port's critical section is left in the port's
\* buf_lock_q, not woken, in a state where buf_lock is free and no other
\* operation is running that could still wake it.
C21_NoLostWakeup ==
  \A k \in DOMAIN task :
    (ParkedOnBufLock(k) /\ NothingElseRuns(k)) => buf_lock[LockPort(k)]

\* The step by which the write of task k extends its partner's buffer.
Appends(k) ==
  /\ task[k].kind = "write"
  /\ task[k].pc = "w_cs" /\ task'[k].pc = "w_pop"

\* C22: no write completes against a connection that no longer exists.  A
\* write on port A extends the buffer of port B only in a state where A's
\* edge resolves to B, and a port's buffer grows by no other step; so once a
\* disconnect of A or B has cleared the edge, no write on A that was in
\* flight adds bytes to B's buffer.
C22_AppendsOnlyToPartner ==
  [][/\ \A k \in DOMAIN task :
          Appends(k) => Resolve(task[k].port) = task[k].other
     /\ \A p \in Ports :
          Len(buffer'[p]) > Len(buffer[p])
            => \E k \in DOMAIN task : Appends(k) /\ task[k].other = p]_vars

\* The port whose edge mutex thread t is about to lock, if any.
WaitsFor(t) ==
  CASE thr[t].pc \in {"c_lock_a", "d_lock_1"} -> LockFirst(thr[t].self, thr[t].other)
    [] thr[t].pc \in {"c_lock_b", "d_lock_2"} -> LockSecond(thr[t].self, thr[t].other)
    [] thr[t].pc = "d_edge" -> thr[t].self
    [] OTHER -> None

\* C10: deadlock freedom.  In no reachable state do two calls of connect /
\* disconnect each hold an edge mutex the other is waiting for.
C10_NoCircularWait ==
  ~ \E t1 \in DOMAIN thr, t2 \in DOMAIN thr :
      /\ t1 # t2
      /\ WaitsFor(t1) # None /\ edge_lock[WaitsFor(t1)] = t2
      /\ WaitsFor(t2) # None /\ edge_lock[WaitsFor(t2)] = t1

====
